---- MODULE Spec2Model ----
(***************************************************************************)
(* Model of post.ipynb: sunset_time (the grid search for the local time of *)
(* sunset at a batch of locations) and the county-colouring loop of        *)
(* plot_sunset_map.                                                        *)
(*                                                                         *)
(* Conventions.  Arrays of the notebook are functions on 0..n-1, so that   *)
(* every index of the model is the index of the source.  Lists grown with  *)
(* append (sunset_idx, good_i, sunsets) are sequences; element k of the    *)
(* Python list is At(s, k).  Instants are whole seconds after 00:00 UTC of *)
(* the day passed to sunset_time; altitudes are integers, or NaN.          *)
(* np.array over the per-location index arrays (line 194) is taken to      *)
(* yield one index array per location, whatever their lengths, which is    *)
(* what the try/except IndexError of lines 204-218 is written for.         *)
(***************************************************************************)
EXTENDS Integers, Sequences, FiniteSets, TLC

\* ---------------------------------------------------------------- bounds
MaxTime == 4
MaxAlt == 2
MaxPos == 2
MaxShapes == 2
LonSteps == 6

\* ------------------------------------------------------------- constants
HoursPerDay == 24
SecondsPerHour == 3600
MinutesPerHour == 60
Day == HoursPerDay * SecondsPerHour

\* The float NaN: every comparison with it is false, arithmetic keeps it.
NaN == -9999

VARIABLES
    locs,          \* locs[i][t]: the sun's altitude at location i, instant t
    tzs,           \* tzs[i]: the timezone found for location i (global)
    n_time,        \* the n_time argument of sunset_time
    pc,            \* the statement the notebook is at
    time_grid,     \* time_grid[k], k in 0..n_time-1
    alt,           \* sun_altaz.alt.degree: alt[k][i]
    min_idx,       \* min_idx[i]: the indices argrelmin returns for location i
    i,             \* the loop variable of lines 202-218
    sunset_idx,
    good_i,
    sunsets,       \* the localized datetimes
    sunset_hours,
    counties_info, \* m.counties_info: the GEOID string of every shape
    s,             \* the loop variable of lines 455-461
    patches,       \* the polygons added: [shape, facecolor]
    call,          \* 1: the first call of sunset_time, 2: a later call
    first          \* what the first call returned, kept by the caller

vars == << locs, tzs, n_time, pc, time_grid, alt, min_idx, i, sunset_idx,
           good_i, sunsets, sunset_hours, counties_info, s, patches, call,
           first >>

\* ------------------------------------------------------------ arithmetic
Less(x, y) == x # NaN /\ y # NaN /\ x < y
Sq(x) == IF x = NaN THEN NaN ELSE x * x
Sub(x, y) == IF x = NaN \/ y = NaN THEN NaN ELSE x - y
Min(a, b) == IF a < b THEN a ELSE b
Max(a, b) == IF a > b THEN a ELSE b
Abs(a) == IF a < 0 THEN 0 - a ELSE a
At(seq, k) == seq[k + 1]
Arange(n) == [k \in 1..n |-> k - 1]
NumLocs == Cardinality(DOMAIN locs)

\* ------------------------------------------------------------- time grid
\* np.linspace(0, 24, num) * u.hour, in seconds: both end points included.
Linspace(num) ==
    [k \in 0..(num - 1) |-> IF num = 1 THEN 0 ELSE (k * Day) \div (num - 1)]

Instants(num) == { Linspace(num)[k] : k \in 0..(num - 1) }

\* ------------------------------------------------------------- argrelmin
\* ndarray.take(..., mode="wrap")
Take(data, n, k) == data[k % n]

\* Mutant of IsRelMin: take with mode="clip", the ends are their own
\* neighbours.
IsRelMinClip(data, n, k) ==
    /\ Less(data[k], data[Min(k + 1, n - 1)])
    /\ Less(data[k], data[Max(k - 1, 0)])

\* scipy.signal.argrelmin(data, mode="wrap"): comparator np.less, order 1.
IsRelMin(data, n, k) ==
    /\ Less(Take(data, n, k), Take(data, n, k + 1))
    /\ Less(Take(data, n, k), Take(data, n, k - 1))

ArgRelMin(data, n) == SelectSeq(Arange(n), LAMBDA j : IsRelMin(data, n, j))

\* a**2 for a in sun_altaz.alt.degree.T
SquaredColumn(table, n, p) == [k \in 0..(n - 1) |-> Sq(table[k][p])]

\* ------------------------------------------------------------ slope test
\* Mutants of Slope: the neighbours taken circularly, as argrelmin takes
\* them; the column of the first location read for every location.
SlopeWrapped(table, n, j, p) ==
    Sub(table[(j + 1) % n][p], table[(j + n - 1) % n][p])

SlopeOfFirstColumn(table, n, j, p) ==
    Sub(table[Min(j + 1, n - 1)][0], table[Max(j - 1, 0)][0])

\* alt[min(j + 1, len(alt) - 1), i] - alt[max(j - 1, 0), i]
Slope(table, n, j, p) ==
    Sub(table[Min(j + 1, n - 1)][p], table[Max(j - 1, 0)][p])

\* Mutant of Decreasing: the sign of the test reversed.
Rising(table, n, idx, p) ==
    SelectSeq(idx, LAMBDA j : Less(0, Slope(table, n, j, p)))

\* idx[np.array([...]) < 0]
Decreasing(table, n, idx, p) ==
    SelectSeq(idx, LAMBDA j : Less(Slope(table, n, j, p), 0))

\* ------------------------------------------------------------- timezones
Zones == { "UTC", "America/Phoenix", "America/New_York" }

\* The UTC offset pytz applies at instant t.  The day modelled is the day
\* New York leaves standard time (02:00 EST = 07:00 UTC).
UtcOffset(tz, t) ==
    CASE tz = "UTC" -> 0
      [] tz = "America/Phoenix" -> 0 - 7 * SecondsPerHour
      [] tz = "America/New_York" ->
            IF t < 7 * SecondsPerHour THEN 0 - 5 * SecondsPerHour
                                      ELSE 0 - 4 * SecondsPerHour

\* utc.localize(dt).astimezone(tz): the same instant, read on tz's clock.
Localize(t, tz) == [utc |-> t, tz |-> tz, wall |-> t + UtcOffset(tz, t)]

\* s.hour + s.minute / 60 + s.second / 3600, in seconds
Hour(d) == (d.wall \div SecondsPerHour) % HoursPerDay
Minute(d) == (d.wall \div MinutesPerHour) % MinutesPerHour
Second(d) == d.wall % MinutesPerHour
DecimalHours(d) ==
    Hour(d) * SecondsPerHour + Minute(d) * MinutesPerHour + Second(d)

\* ------------------------------------------------------------ sunset_time
TimeGrid ==
    /\ pc = "time_grid"
    /\ time_grid' = Linspace(n_time)
    /\ pc' = "altaz"
    /\ UNCHANGED << locs, tzs, n_time, alt, min_idx, i, sunset_idx, good_i,
                    sunsets, sunset_hours, counties_info, s, patches,
                    call, first >>

SunAltAz ==
    /\ pc = "altaz"
    /\ alt' = [k \in 0..(n_time - 1) |->
                 [p \in DOMAIN locs |-> locs[p][time_grid[k]]]]
    /\ pc' = "min_idx"
    /\ UNCHANGED << locs, tzs, n_time, time_grid, min_idx, i, sunset_idx,
                    good_i, sunsets, sunset_hours, counties_info, s, patches,
                    call, first >>

MinIdx ==
    /\ pc = "min_idx"
    /\ min_idx' = [p \in DOMAIN locs |->
                     ArgRelMin(SquaredColumn(alt, n_time, p), n_time)]
    /\ sunset_idx' = << >>
    /\ good_i' = << >>
    /\ i' = 0
    /\ pc' = "loop"
    /\ UNCHANGED << locs, tzs, n_time, time_grid, alt, sunsets, sunset_hours,
                    counties_info, s, patches, call, first >>

\* One iteration of the loop whose try block succeeds.
LoopAppend ==
    /\ pc = "loop"
    /\ i < NumLocs
    /\ Decreasing(alt, n_time, min_idx[i], i) # << >>
    /\ sunset_idx' = Append(sunset_idx,
                            At(Decreasing(alt, n_time, min_idx[i], i), 0))
    /\ good_i' = Append(good_i, i)
    /\ i' = i + 1
    /\ UNCHANGED << locs, tzs, n_time, pc, time_grid, alt, min_idx, sunsets,
                    sunset_hours, counties_info, s, patches,
                    call, first >>

\* One iteration whose [0] raises IndexError: continue.
LoopSkip ==
    /\ pc = "loop"
    /\ i < NumLocs
    /\ Decreasing(alt, n_time, min_idx[i], i) = << >>
    /\ i' = i + 1
    /\ UNCHANGED << locs, tzs, n_time, pc, time_grid, alt, min_idx,
                    sunset_idx, good_i, sunsets, sunset_hours, counties_info,
                    s, patches, call, first >>

\* Mutant of LocalSunset: tzs indexed by the place in the output.
LocalSunsetByOutputIndex(k) ==
    Localize(time_grid[sunset_idx[k]], tzs[k - 1])

\* utc.localize(sun_time[j, i]).astimezone(tzs[i]) for the k-th pair of
\* zip(good_i, sunset_idx); sun_time[j, i] is the grid instant j.
LocalSunset(k) == Localize(time_grid[sunset_idx[k]], tzs[good_i[k]])

\* Lines 220-234: the conversion to local time, and the return.
Sunsets ==
    /\ pc = "loop"
    /\ i = NumLocs
    /\ sunsets' = [k \in 1..Len(good_i) |-> LocalSunset(k)]
    /\ pc' = "returned"
    /\ UNCHANGED << locs, tzs, n_time, time_grid, alt, min_idx, i,
                    sunset_idx, good_i, sunset_hours, counties_info, s,
                    patches, call, first >>

\* ---------------------------------------------------------------- caller
\* county["GEOID"][i]: the identifier of row i of the county table.
CountyGEOID(p) == 1001 + 2 * p

\* info["GEOID"] of the shape drawn for row p, and of a shape of no row.
ShapeGEOID(p) == << 0, 1, 0, 0, 1 + 2 * p >>
OtherGEOID == << 5, 6, 0, 4, 5 >>

\* int(info["GEOID"])
RECURSIVE ParseInt(_)
ParseInt(digits) ==
    IF digits = << >> THEN 0
    ELSE 10 * ParseInt(SubSeq(digits, 1, Len(digits) - 1)) + digits[Len(digits)]

\* x in arr, for a numpy array
In(x, arr) == \E k \in 1..Len(arr) : arr[k] = x

\* np.where(county["GEOID"][good_i] == geoid)[0]: positions in the selection
MatchIdx(geoid) ==
    SelectSeq(Arange(Len(good_i)),
              LAMBDA k : CountyGEOID(At(good_i, k)) = geoid)

\* len(match_idx) > 0 and match_idx[0] in good_i
Matched(match_idx) == Len(match_idx) > 0 /\ In(At(match_idx, 0), good_i)

\* Line 413 (260), and the shapes read at line 453 (364).
SunsetHours ==
    /\ pc = "returned"
    /\ call = 1
    /\ sunset_hours' = [k \in 1..Len(sunsets) |-> DecimalHours(sunsets[k])]
    /\ \E n \in 1..MaxShapes :
          counties_info' \in
              [1..n -> { ShapeGEOID(p) : p \in DOMAIN locs } \cup { OtherGEOID }]
    /\ s' = 0
    /\ patches' = {}
    /\ pc' = "plot"
    /\ UNCHANGED << locs, tzs, n_time, time_grid, alt, min_idx, i,
                    sunset_idx, good_i, sunsets, call, first >>

\* One iteration of the loop of lines 455-461 that adds a polygon.
AddPatch ==
    /\ pc = "plot"
    /\ s < Len(counties_info)
    /\ LET match_idx == MatchIdx(ParseInt(At(counties_info, s))) IN
          /\ Matched(match_idx)
          /\ patches' = patches \cup
                { [shape |-> s, facecolor |-> At(sunset_hours, At(match_idx, 0))] }
    /\ s' = s + 1
    /\ UNCHANGED << locs, tzs, n_time, pc, time_grid, alt, min_idx, i,
                    sunset_idx, good_i, sunsets, sunset_hours, counties_info,
                    call, first >>

\* One iteration that adds none.
NoPatch ==
    /\ pc = "plot"
    /\ s < Len(counties_info)
    /\ ~ Matched(MatchIdx(ParseInt(At(counties_info, s))))
    /\ s' = s + 1
    /\ UNCHANGED << locs, tzs, n_time, pc, time_grid, alt, min_idx, i,
                    sunset_idx, good_i, sunsets, sunset_hours, counties_info,
                    patches, call, first >>

PlotDone ==
    /\ pc = "plot"
    /\ s = Len(counties_info)
    /\ pc' = "done"
    /\ UNCHANGED << locs, tzs, n_time, time_grid, alt, min_idx, i,
                    sunset_idx, good_i, sunsets, sunset_hours, counties_info,
                    s, patches, call, first >>

\* --------------------------------------------------------- further calls
\* An array without its element p.
Without(arr, p) ==
    [j \in 0..(Cardinality(DOMAIN arr) - 2) |->
        IF j < p THEN arr[j] ELSE arr[j + 1]]

\* What the caller keeps of a call.
Returned == [good_i |-> good_i, sunsets |-> sunsets, n_time |-> n_time]

\* sunset_time called again, on the locations (and their rows of tzs)
\* without location p, which the first call left out of good_i.
CallWithout(p) ==
    /\ pc = "returned"
    /\ call = 1
    /\ p \in DOMAIN locs
    /\ ~ In(p, good_i)
    /\ first' = [ret |-> Returned, without |-> p]
    /\ locs' = Without(locs, p)
    /\ tzs' = Without(tzs, p)
    /\ call' = 2
    /\ pc' = "time_grid"
    /\ time_grid' = << >>
    /\ alt' = << >>
    /\ min_idx' = << >>
    /\ i' = 0
    /\ sunset_idx' = << >>
    /\ good_i' = << >>
    /\ sunsets' = << >>
    /\ UNCHANGED << n_time, sunset_hours, counties_info, s, patches >>

\* sunset_time called again on the same locations with twice the n_time.
CallFiner ==
    /\ pc = "returned"
    /\ call = 1
    /\ \A p \in DOMAIN locs : Instants(2 * n_time) \subseteq DOMAIN locs[p]
    /\ first' = [ret |-> Returned, without |-> -1]
    /\ n_time' = 2 * n_time
    /\ call' = 2
    /\ pc' = "time_grid"
    /\ time_grid' = << >>
    /\ alt' = << >>
    /\ min_idx' = << >>
    /\ i' = 0
    /\ sunset_idx' = << >>
    /\ good_i' = << >>
    /\ sunsets' = << >>
    /\ UNCHANGED << locs, tzs, sunset_hours, counties_info, s, patches >>

\* ------------------------------------------------------------- ephemeris
\* The sun's altitude as the ephemeris gives it: a daily wave of amplitude
\* Amp about the site's mean altitude, highest at local noon, plus the
\* day-to-day drift of the sun's declination.  lon is the site's longitude
\* as a time shift in seconds.
Amp == 60

Wave(x) == Amp - (2 * Amp * Abs(2 * x - Day)) \div Day

SolarAltitude(site, t) ==
    IF site.nan THEN NaN
    ELSE site.lat + Wave((t + site.lon) % Day) + (site.drift * t) \div Day

Lons(steps) == { (j * Day) \div steps : j \in 0..(steps - 1) }
Lats == { 0 - 75, 0 - 30, 0, 30, 75 }
Drifts == { 0 - 1, 0, 1 }

\* The sites the locations are drawn from; NaN coordinates give NaN altitudes.
Sites(steps, drifts) ==
    [nan : {FALSE}, lat : Lats, lon : Lons(steps), drift : drifts]
    \cup { [nan |-> TRUE, lat |-> 0, lon |-> 0, drift |-> 0] }

\* tf.certain_timezone_at(lng, lat): a zone per band of longitude.
TimezoneAt(site) ==
    IF site.nan THEN "UTC"
    ELSE CASE 3 * site.lon < Day -> "UTC"
           [] 3 * site.lon >= Day /\ 3 * site.lon < 2 * Day -> "America/New_York"
           [] OTHER -> "America/Phoenix"

\* ------------------------------------------------------------------ init
Cleared ==
    /\ pc = "time_grid"
    /\ time_grid = << >>
    /\ alt = << >>
    /\ min_idx = << >>
    /\ i = 0
    /\ sunset_idx = << >>
    /\ good_i = << >>
    /\ sunsets = << >>
    /\ sunset_hours = << >>
    /\ counties_info = << >>
    /\ s = 0
    /\ patches = {}
    /\ call = 1
    /\ first = << >>

\* One location, any altitude series (or none: NaN coordinates).
InitColumn ==
    /\ n_time \in 2..MaxTime
    /\ locs \in [ {0} -> [Instants(n_time) -> (0 - MaxAlt)..MaxAlt]
                         \cup { [t \in Instants(n_time) |-> NaN] } ]
    /\ tzs \in [ {0} -> Zones ]
    /\ Cleared

\* A batch of 1..MaxPos sites.
InitBatch ==
    /\ n_time = 2 * MaxTime
    /\ \E n \in 1..MaxPos :
         \E sites \in [0..(n - 1) -> Sites(LonSteps, {0})] :
            /\ locs = [p \in 0..(n - 1) |->
                         [t \in Instants(n_time) |-> SolarAltitude(sites[p], t)]]
            /\ tzs = [p \in 0..(n - 1) |-> TimezoneAt(sites[p])]
    /\ Cleared

\* One site, watched at the instants of the n_time grid and of the grid of
\* twice as many instants.
InitFiner ==
    /\ n_time \in (2 * MaxTime - 1)..(2 * MaxTime)
    /\ \E site \in Sites(4 * LonSteps, Drifts) :
            /\ locs = [p \in {0} |->
                         [t \in Instants(n_time) \cup Instants(2 * n_time) |->
                             SolarAltitude(site, t)]]
            /\ tzs = [p \in {0} |-> TimezoneAt(site)]
    /\ Cleared

\* ----------------------------------------------------------------- specs
SunsetTime ==
    TimeGrid \/ SunAltAz \/ MinIdx \/ LoopAppend \/ LoopSkip \/ Sunsets

Plot == SunsetHours \/ AddPatch \/ NoPatch \/ PlotDone

Next == SunsetTime \/ \E p \in 0..(MaxPos - 1) : CallWithout(p)

Spec == InitBatch /\ [][Next]_vars

NextColumn == SunsetTime

SpecColumn == InitColumn /\ [][NextColumn]_vars

NextPlot == SunsetTime \/ Plot

SpecPlot == InitBatch /\ [][NextPlot]_vars

NextFiner == SunsetTime \/ CallFiner

SpecFiner == InitFiner /\ [][NextFiner]_vars

\* ---------------------------------------------------------------- claims
Positions == DOMAIN locs
Grid == 0..(n_time - 1)
Defined(p) == \A k \in Grid : alt[k][p] # NaN
Square(p, k) == alt[k][p] * alt[k][p]
ResultOf(p) == { k \in 1..Len(good_i) : good_i[k] = p }

\* Minima of the squared altitude, strictly below both circular neighbours.
StrictMinima(p) ==
    IF ~ Defined(p) THEN {}
    ELSE { j \in Grid : /\ Square(p, j) < Square(p, (j + n_time - 1) % n_time)
                        /\ Square(p, j) < Square(p, (j + 1) % n_time) }

\* Minima in the glossary's sense: no greater than both circular neighbours.
WeakMinima(p) ==
    IF ~ Defined(p) THEN {}
    ELSE { j \in Grid : /\ Square(p, j) <= Square(p, (j + n_time - 1) % n_time)
                        /\ Square(p, j) <= Square(p, (j + 1) % n_time) }

ClampedSlopeFalls(p, j) ==
    alt[IF j + 1 > n_time - 1 THEN n_time - 1 ELSE j + 1][p]
        - alt[IF j - 1 < 0 THEN 0 ELSE j - 1][p] < 0

Candidates(p) == { j \in StrictMinima(p) : ClampedSlopeFalls(p, j) }

Least(S) == CHOOSE x \in S : \A y \in S : x <= y

PolarNight(p) == \A k \in Grid : alt[k][p] # NaN /\ alt[k][p] < 0

\* C1: a location whose sampled altitude is negative at every grid instant
\* (polar night) is not in the returned good_i.
C1_PolarNightNoSunset ==
    pc = "returned" => \A p \in Positions : PolarNight(p) => ~ In(p, good_i)

DownCrossings(p) ==
    { k \in 0..(n_time - 2) : alt[k][p] > 0 /\ alt[k + 1][p] <= 0 }

\* C4: a location whose series has exactly one downward horizon crossing,
\* between samples k and k+1, gets a result, at grid index k or k+1.
C4_CrossingWithinOneStep ==
    pc = "returned" =>
        \A p \in Positions : \A k \in 0..(n_time - 2) :
            (Defined(p) /\ DownCrossings(p) = {k}) =>
                \E m \in ResultOf(p) : sunset_idx[m] \in {k, k + 1}

\* C6: the instants estimated with n_time = N and with n_time = 2N differ
\* by less than one step of the N grid.
C6_DoublingWithinOneStep ==
    (pc = "returned" /\ call = 2 /\ first.without = -1) =>
        \A m \in 1..Len(good_i) : \A m1 \in 1..Len(first.ret.good_i) :
            good_i[m] = first.ret.good_i[m1] =>
                Abs(sunsets[m].utc - first.ret.sunsets[m1].utc)
                    < Linspace(first.ret.n_time)[1]

\* C2: good_i is strictly increasing, sunsets is as long as good_i, a
\* location is in good_i exactly when one of its minima has a falling
\* slope, and sunsets[k] is the instant found in the column of good_i[k].
C2_OneResultPerCandidateInOrder ==
    pc = "returned" =>
        /\ \A k \in 1..(Len(good_i) - 1) : good_i[k] < good_i[k + 1]
        /\ \A k \in 1..Len(good_i) : good_i[k] \in Positions
        /\ Len(sunsets) = Len(good_i)
        /\ \A p \in Positions : In(p, good_i) <=> Candidates(p) # {}
        /\ \A k \in 1..Len(good_i) :
              sunsets[k].utc = time_grid[Least(Candidates(good_i[k]))]

C2_Witness ==
    /\ pc = "returned"
    /\ NumLocs = 2
    /\ good_i = << 1 >>

Shifted(p, q) == IF p > q THEN p - 1 ELSE p

\* C3: a location without a valid minimum is left out of good_i, and the
\* call made without it returns, for every other location, the result of
\* the call made with it.
C3_ExcludedWithoutEffect ==
    /\ pc = "returned" =>
          \A p \in Positions :
              (~ Defined(p) \/ Candidates(p) = {}) => ~ In(p, good_i)
    /\ (pc = "returned" /\ call = 2 /\ first.without >= 0) =>
          /\ Len(good_i) = Len(first.ret.good_i)
          /\ \A k \in 1..Len(good_i) :
                /\ good_i[k] = Shifted(first.ret.good_i[k], first.without)
                /\ sunsets[k] = first.ret.sunsets[k]

C3_Witness ==
    /\ pc = "returned"
    /\ call = 2
    /\ first.without = 0
    /\ good_i = << 0 >>
    /\ first.ret.good_i = << 1 >>

\* C5: sunsets[k] is the grid instant selected for location good_i[k], on
\* the clock of tzs[good_i[k]]; in a zone of offset 0 it reads as in UTC.
C5_LocalTimeOfOwnZone ==
    pc = "returned" =>
        \A k \in 1..Len(sunsets) :
            LET p == good_i[k]
                t == time_grid[sunset_idx[k]]
            IN  /\ sunsets[k].utc = t
                /\ sunsets[k].tz = tzs[p]
                /\ sunsets[k].wall - UtcOffset(tzs[p], t) = t
                /\ tzs[p] = "UTC" => sunsets[k].wall = t

C5_Witness ==
    /\ pc = "returned"
    /\ \E k \in 1..Len(sunsets) :
          /\ good_i[k] # k - 1
          /\ tzs[good_i[k]] # tzs[k - 1]
          /\ sunsets[k].wall # sunsets[k].utc

\* C7: the index selected for a location is the least j whose squared
\* altitude is strictly below both circular neighbours and whose slope,
\* clamped at the grid ends, is negative; with no such j it is skipped.
C7_FirstStrictMinimumWithFallingSlope ==
    pc = "returned" =>
        \A p \in Positions :
            IF Candidates(p) = {} THEN ResultOf(p) = {}
            ELSE \E k \in ResultOf(p) : sunset_idx[k] = Least(Candidates(p))

C7_Witness ==
    /\ pc = "returned"
    /\ \E p \in Positions :
          /\ Cardinality(Candidates(p)) >= 2
          /\ 0 \in Candidates(p)
          /\ alt[1][p] - alt[n_time - 1][p] >= 0

Indices(seq) == { seq[k] : k \in 1..Len(seq) }

\* C8, as claimed: the minima computed for a location are the weak circular
\* minima of its squared altitude (no greater than both neighbours).
C8_MinimaAreWeakMinima ==
    pc \in {"loop", "returned"} =>
        \A p \in Positions : Indices(min_idx[p]) = WeakMinima(p)

\* C8, amended: the minima computed for a location are the strict circular
\* minima of its squared altitude; a sample equal to a neighbour is not one.
C8_MinimaAreStrictMinima ==
    pc \in {"loop", "returned"} =>
        \A p \in Positions : Indices(min_idx[p]) = StrictMinima(p)

C8_Witness ==
    /\ pc = "loop"
    /\ \E p \in Positions :
          /\ min_idx[p] # << >>
          /\ WeakMinima(p) # StrictMinima(p)
          /\ (0 \in StrictMinima(p) \/ n_time - 1 \in StrictMinima(p))

\* C9: the grid has n_time instants from 00:00 UTC, every circular step is
\* the same modulo 24 hours, and no two instants share a time of day.
C9_GridPeriodic ==
    pc # "time_grid" =>
        /\ DOMAIN time_grid = Grid
        /\ time_grid[0] = 0
        /\ \A k \in Grid :
              (time_grid[(k + 1) % n_time] - time_grid[k]) % Day
                  = (time_grid[1] - time_grid[0]) % Day
        /\ \A j, k \in Grid :
              j # k => time_grid[j] % Day # time_grid[k] % Day

\* C10: a shape whose GEOID is that of a location with a result is coloured
\* with that location's sunset hour; any other shape is left uncoloured.
C10_EveryResultColoured ==
    pc = "done" =>
        \A sh \in 0..(Len(counties_info) - 1) :
            LET geoid == ParseInt(At(counties_info, sh))
                owner == { k \in 1..Len(good_i) : CountyGEOID(good_i[k]) = geoid }
            IN  IF owner = {}
                THEN \A f \in patches : f.shape # sh
                ELSE \A k \in owner :
                        [shape |-> sh, facecolor |-> sunset_hours[k]] \in patches
====
